---- MODULE Spec2Model ----
(***************************************************************************)
(* Model of dags/weatherstack_to_postgres.py: a three-task Airflow DAG     *)
(* (ensure_table >> extract_and_load >> cleanup_old_rows) that fetches the *)
(* current weather from the Weatherstack API and stores it in the          *)
(* PostgreSQL table weather_current, keeping RETENTION_DAYS days of rows.   *)
(***************************************************************************)
EXTENDS Integers, Sequences, FiniteSets, TLC

\* ------------------------------------------------------------------ bounds
MaxRuns == 2      \* DAG runs started in one behaviour
MaxTime == 3      \* database clock, in days since the first state
MaxCalls == 2     \* rows stored by direct calls of extract_and_load

\* --------------------------------------------------------------- constants
RETENTION_DAYS == 2
max_active_runs == 1
retries == 2

\* Python's None; JSON null parses to it and psycopg2 adapts it to SQL NULL.
None == "None"
\* A key that the mapping does not have.
ABSENT == "ABSENT"

\* ----------------------------------------------------- JSON values (data)
\* A parsed JSON value is a record of one shape; `kind` says which Python
\* type resp.json() produced.  For a dict the five keys the code reads are
\* kept; a section is [st |-> "absent" | "null" | "map" | "str", ...].
EmptyRequest == [st |-> "map", query |-> ABSENT]
EmptyLocation ==
  [st |-> "map", name |-> ABSENT, region |-> ABSENT, country |-> ABSENT,
   lat |-> ABSENT, lon |-> ABSENT]
EmptyCurrent ==
  [st |-> "map", observation_time |-> ABSENT, temperature |-> ABSENT,
   humidity |-> ABSENT, wind_speed |-> ABSENT, wind_dir |-> ABSENT,
   pressure |-> ABSENT, precip |-> ABSENT, cloudcover |-> ABSENT,
   uv_index |-> ABSENT, visibility |-> ABSENT, is_day |-> ABSENT]
EmptyError == [st |-> "map", code |-> ABSENT, info |-> ABSENT]

Missing(sec) == [sec EXCEPT !.st = "absent"]
Null(sec) == [sec EXCEPT !.st = "null"]
Text(sec) == [sec EXCEPT !.st = "str"]

EmptyDict ==
  [kind |-> "dict", success |-> ABSENT, error |-> Missing(EmptyError),
   request |-> Missing(EmptyRequest), location |-> Missing(EmptyLocation),
   current |-> Missing(EmptyCurrent), elems |-> {}, text |-> <<>>]
JList(es) == [EmptyDict EXCEPT !.kind = "list", !.elems = es]
JStr(cs) == [EmptyDict EXCEPT !.kind = "str", !.text = cs]
JNum == [EmptyDict EXCEPT !.kind = "num"]
JNull == [EmptyDict EXCEPT !.kind = "null"]
NoData == [EmptyDict EXCEPT !.kind = "none"]

\* The string "current" as Python sees it: a sequence of characters.
CurrentKey == <<"c", "u", "r", "r", "e", "n", "t">>

\* ------------------------------------------------------------- exceptions
\* str(e) is kept as a sequence of tokens; `data` is the payload an f-string
\* embedded in the message (NoData when none).
Exc(type, msg, data) == [exc |-> type, msg |-> msg, data |-> data]
NoError == Exc("None", <<"None">>, NoData)

\* ------------------------------------------------------------ environment
\* os.getenv: [set |-> FALSE] is an unset variable, val its characters.
EnvValues ==
  { [set |-> FALSE, val |-> <<>>], [set |-> TRUE, val |-> <<>>],
    [set |-> TRUE, val |-> <<" ">>], [set |-> TRUE, val |-> <<"k", "1">>] }

RECURSIVE lstrip(_)
lstrip(s) == IF s # <<>> /\ Head(s) = " " THEN lstrip(Tail(s)) ELSE s
RECURSIVE rstrip(_)
rstrip(s) ==
  IF s # <<>> /\ s[Len(s)] = " " THEN rstrip(SubSeq(s, 1, Len(s) - 1)) ELSE s
strip(s) == rstrip(lstrip(s))

\* _get_env(name, default=None, required): [raised, val]
get_env(e, required) ==
  IF required /\ (~e.set \/ strip(e.val) = <<>>)
    THEN [raised |-> TRUE, val |-> <<>>]
    ELSE [raised |-> FALSE, val |-> IF e.set THEN e.val ELSE <<"N", "o", "n", "e">>]

\* ------------------------------------------------------ fetch_weather_from_api
base_urls ==
  << "https://api.weatherstack.com/current",
     "http://api.weatherstack.com/current" >>

\* What one requests.get(...) + resp.json() produces: st = "json" carries the
\* parsed body; the other values are the exceptions the call can raise.
Resp(st, data) == [st |-> st, data |-> data]
Unrequested == Resp("unrequested", NoData)

\* Python's `needle in hay` for two strings: needle occurs as a substring.
Substring(needle, hay) ==
  \E i \in 0..(Len(hay) - Len(needle)) :
    SubSeq(hay, i + 1, i + Len(needle)) = needle

\* `"current" in data` (line 97): key membership for a dict, element
\* membership for a list, substring for a str, TypeError for the other types.
InRaises(data) == data.kind \notin {"dict", "list", "str"}
In(data) ==
  CASE data.kind = "dict" -> data.current.st # "absent"
    [] data.kind = "list" -> "current" \in data.elems
    [] data.kind = "str" -> Substring(CurrentKey, data.text)
    [] OTHER -> FALSE

\* d.get(key): None when the key is missing, the value otherwise.
Get(v) == IF v = ABSENT THEN None ELSE v

\* str(e) of the RuntimeError of line 95.
ApiErrorMessage_no_code(err) ==
  <<"Weatherstack API error: ", Get(err.info)>>
ApiErrorMessage(err) ==
  <<"Weatherstack API error (code=", Get(err.code), "): ", Get(err.info)>>

\* The body of the try block (lines 86-100) for one endpoint.
attempt(resp) ==
  LET data == resp.data
      Raise(e) == [ok |-> FALSE, data |-> NoData, error |-> e]
  IN
  IF resp.st = "conn_error"
    THEN Raise(Exc("ConnectionError", <<"connection failed">>, NoData))
  ELSE IF resp.st = "timeout"
    THEN Raise(Exc("Timeout", <<"read timed out">>, NoData))
  ELSE IF resp.st = "bad_json"
    THEN Raise(Exc("JSONDecodeError", <<"Expecting value">>, NoData))
  ELSE IF data.kind = "dict" /\ data.success = "false"
    THEN IF data.error.st \in {"absent", "map"}
           THEN Raise(Exc("RuntimeError", ApiErrorMessage(data.error), NoData))
           ELSE Raise(Exc("AttributeError", <<"object has no attribute 'get'">>,
                          NoData))
  ELSE IF InRaises(data)
    THEN Raise(Exc("TypeError", <<"argument is not iterable">>, NoData))
  ELSE IF ~In(data)
    THEN Raise(Exc("RuntimeError", <<"Unexpected API response shape: ">>, data))
  ELSE [ok |-> TRUE, data |-> data, error |-> NoError]

\* str(e) of the RuntimeError of line 106.
Aggregated(last_error) ==
  Exc("RuntimeError",
      <<"Failed calling Weatherstack API (https/http). Last error: ">>
        \o last_error.msg,
      last_error.data)

\* fetch_loop with `break` in place of `continue`.
fetch_loop_no_fallback(resps, i, last_error, requested) ==
  LET a == attempt(resps[i])
      req == Append(requested, base_urls[i])
  IN IF a.ok
       THEN [returned |-> TRUE, payload |-> a.data, error |-> NoError,
             last_error |-> last_error, requested |-> req]
       ELSE [returned |-> FALSE, payload |-> NoData, error |-> Aggregated(a.error),
             last_error |-> a.error, requested |-> req]

\* fetch_loop keeping the first error instead of the last one.
RECURSIVE fetch_loop_first_error(_, _, _, _)
fetch_loop_first_error(resps, i, last_error, requested) ==
  IF i > Len(base_urls)
    THEN [returned |-> FALSE, payload |-> NoData, error |-> Aggregated(last_error),
          last_error |-> last_error, requested |-> requested]
    ELSE LET a == attempt(resps[i])
             req == Append(requested, base_urls[i])
         IN IF a.ok
              THEN [returned |-> TRUE, payload |-> a.data, error |-> NoError,
                    last_error |-> last_error, requested |-> req]
              ELSE fetch_loop_first_error(
                     resps, i + 1,
                     IF last_error = NoError THEN a.error ELSE last_error, req)

\* The for loop (lines 83-106) from endpoint i on.  resps[i] is what endpoint
\* i answers; `requested` logs the URLs requested so far, in order.
RECURSIVE fetch_loop(_, _, _, _)
fetch_loop(resps, i, last_error, requested) ==
  IF i > Len(base_urls)
    THEN [returned |-> FALSE, payload |-> NoData, error |-> Aggregated(last_error),
          last_error |-> last_error, requested |-> requested]
    ELSE LET a == attempt(resps[i])
             req == Append(requested, base_urls[i])
         IN IF a.ok
              THEN [returned |-> TRUE, payload |-> a.data, error |-> NoError,
                    last_error |-> last_error, requested |-> req]
              ELSE fetch_loop(resps, i + 1, a.error, req)

fetch_weather_from_api(resps) == fetch_loop(resps, 1, NoError, <<>>)
NoFetch ==
  [returned |-> FALSE, payload |-> NoData, error |-> NoError,
   last_error |-> NoError, requested |-> <<>>]

\* ------------------------------------------------------------ load_to_postgres
\* `section or {}` after api_payload.get(key, {}): a missing key, a null and
\* an empty mapping all become {}; any other value is kept as it is.
OrEmpty(sec, empty) == IF sec.st \in {"absent", "null"} THEN empty ELSE sec

\* float(x) for the literals the model uses, in hundredths; the other
\* strings are not coercible and float raises ValueError.
FloatTable ==
  [s \in {"-6.21", "106.85", "0"} |->
     CASE s = "-6.21" -> -621 [] s = "106.85" -> 10685 [] OTHER -> 0]
Coercible(s) == s \in DOMAIN FloatTable
\* A DOUBLE PRECISION column value: SQL NULL or a number.
SqlNull == [null |-> TRUE, v |-> 0]
SqlNum(n) == [null |-> FALSE, v |-> n]
\* float(location["lat"]) if location.get("lat") is not None else None
FloatOrNone(v) == IF Get(v) # None THEN SqlNum(FloatTable[v]) ELSE SqlNull
FloatRaises(v) == Get(v) # None /\ ~Coercible(v)

\* Json(obj) adapts the payload with json.dumps and the JSONB column stores
\* the parsed document: an unordered set of (section, key, value) members.
SectionMembers(name, sec, keys) ==
  CASE sec.st = "absent" -> {}
    [] sec.st = "null" -> {<<name, "", None>>}
    [] sec.st = "str" -> {<<name, "", "str">>}
    [] OTHER -> {<<name, "", "{}">>}
                  \cup {<<name, k, sec[k]>> : k \in {x \in keys : sec[x] # ABSENT}}
Json(p) ==
  (IF p.success = ABSENT THEN {} ELSE {<<"success", "", p.success>>})
    \cup SectionMembers("error", p.error, DOMAIN EmptyError \ {"st"})
    \cup SectionMembers("request", p.request, DOMAIN EmptyRequest \ {"st"})
    \cup SectionMembers("location", p.location, DOMAIN EmptyLocation \ {"st"})
    \cup SectionMembers("current", p.current, DOMAIN EmptyCurrent \ {"st"})

\* Reading the JSONB document back into a mapping.
SectionOf(raw, name, empty) ==
  IF <<name, "", None>> \in raw THEN Null(empty)
  ELSE IF <<name, "", "str">> \in raw THEN Text(empty)
  ELSE IF <<name, "", "{}">> \notin raw THEN Missing(empty)
  ELSE [k \in DOMAIN empty |->
          IF k = "st" THEN "map"
          ELSE IF \E m \in raw : m[1] = name /\ m[2] = k
                 THEN (CHOOSE m \in raw : m[1] = name /\ m[2] = k)[3]
                 ELSE ABSENT]
FromJsonb(raw) ==
  [EmptyDict EXCEPT
     !.success = IF \E m \in raw : m[1] = "success"
                   THEN (CHOOSE m \in raw : m[1] = "success")[3] ELSE ABSENT,
     !.error = SectionOf(raw, "error", EmptyError),
     !.request = SectionOf(raw, "request", EmptyRequest),
     !.location = SectionOf(raw, "location", EmptyLocation),
     !.current = SectionOf(raw, "current", EmptyCurrent)]

\* The `row` dict of lines 114-133, for a payload whose sections are mappings.
RowOf(api_payload) ==
  LET request_obj == OrEmpty(api_payload.request, EmptyRequest)
      location == OrEmpty(api_payload.location, EmptyLocation)
      current == OrEmpty(api_payload.current, EmptyCurrent)
  IN [query_text |-> Get(request_obj.query),
      location_name |-> Get(location.name),
      region |-> Get(location.region),
      country |-> Get(location.country),
      latitude |-> FloatOrNone(location.lat),
      longitude |-> FloatOrNone(location.lon),
      observation_time |-> Get(current.observation_time),
      temperature_c |-> Get(current.temperature),
      humidity |-> Get(current.humidity),
      wind_speed |-> Get(current.wind_speed),
      wind_dir |-> Get(current.wind_dir),
      pressure |-> Get(current.pressure),
      precip |-> Get(current.precip),
      cloudcover |-> Get(current.cloudcover),
      uv_index |-> Get(current.uv_index),
      visibility |-> Get(current.visibility),
      is_day |-> Get(current.is_day),
      raw |-> Json(api_payload)]

\* Columns declared NOT NULL without a default in CREATE_TABLE_SQL.
NotNullColumns == {"query_text"}

\* One stored row: the inserted columns plus the defaults id (BIGSERIAL) and
\* fetched_at (now() of the database).
Stored(row, id, clock) ==
  [id |-> id, fetched_at |-> clock, cols |-> row]

\* Insert that writes the row before the constraint is checked and does not
\* take it back.
Insert_partial(table, exists, row, id, clock) ==
  IF ~exists
    THEN [exc |-> Exc("UndefinedTable", <<"relation does not exist">>, NoData),
          rows |-> table]
  ELSE IF \E c \in {"query_text"} : row[c] = None
    THEN [exc |-> Exc("NotNullViolation", <<"null value in column">>, NoData),
          rows |-> table \cup {[id |-> id, fetched_at |-> clock, cols |-> row]}]
  ELSE [exc |-> NoError,
        rows |-> table \cup {[id |-> id, fetched_at |-> clock, cols |-> row]}]

\* INSERT INTO weather_current ... (line 154) under autocommit: one statement,
\* which either stores the whole row or raises and stores nothing.
Insert(table, exists, row, id, clock) ==
  IF ~exists
    THEN [exc |-> Exc("UndefinedTable", <<"relation does not exist">>, NoData),
          rows |-> table]
  ELSE IF \E c \in NotNullColumns : row[c] = None
    THEN [exc |-> Exc("NotNullViolation", <<"null value in column">>, NoData),
          rows |-> table]
  ELSE [exc |-> NoError, rows |-> table \cup {Stored(row, id, clock)}]

\* load_to_postgres(api_payload): dbUp says whether psycopg2.connect succeeds.
\* Result: the exception that leaves the function (NoError if none), the
\* table afterwards and the number of connections opened.
load_to_postgres(api_payload, dbUp, table, exists, id, clock) ==
  LET Raise(e, n) == [exc |-> e, rows |-> table, dbCalls |-> n]
      request_obj == OrEmpty(api_payload.request, EmptyRequest)
      location == OrEmpty(api_payload.location, EmptyLocation)
      current == OrEmpty(api_payload.current, EmptyCurrent)
  IN
  IF api_payload.kind # "dict"
    THEN Raise(Exc("AttributeError", <<"object has no attribute 'get'">>, NoData), 0)
  ELSE IF request_obj.st # "map" \/ location.st # "map" \/ current.st # "map"
    THEN Raise(Exc("AttributeError", <<"object has no attribute 'get'">>, NoData), 0)
  ELSE IF FloatRaises(location.lat) \/ FloatRaises(location.lon)
    THEN Raise(Exc("ValueError", <<"could not convert string to float">>, NoData), 0)
  ELSE IF ~dbUp
    THEN Raise(Exc("OperationalError", <<"could not connect to server">>, NoData), 1)
  ELSE LET r == Insert(table, exists, RowOf(api_payload), id, clock)
       IN [exc |-> r.exc, rows |-> r.rows, dbCalls |-> 1]

\* ------------------------------------------------------------ cleanup_old_rows
\* DELETE FROM weather_current WHERE fetched_at < now() - RETENTION_DAYS days
\* Expired with <= in place of <.
Expired_inclusive(row, clock) == row.fetched_at <= clock - 2
Expired(row, clock) == row.fetched_at < clock - RETENTION_DAYS
Delete(table, clock) == {r \in table : ~Expired(r, clock)}

\* ------------------------------------------------- provider responses (inputs)
Jakarta ==
  [EmptyDict EXCEPT
     !.request = [EmptyRequest EXCEPT !.query = "Jakarta"],
     !.location = [EmptyLocation EXCEPT !.name = "Jakarta", !.lat = "-6.21",
                                        !.lon = "106.85"],
     !.current = [EmptyCurrent EXCEPT !.temperature = "29", !.humidity = "70"]]
\* no lat, null lon, null current
Sparse ==
  [Jakarta EXCEPT !.location.lat = ABSENT, !.location.lon = None,
                  !.current = Null(EmptyCurrent)]
\* only the current section
OnlyCurrent ==
  [EmptyDict EXCEPT !.current = [EmptyCurrent EXCEPT !.temperature = "29"]]
ApiError(code) ==
  [EmptyDict EXCEPT !.success = "false",
                    !.error = [EmptyError EXCEPT !.code = code, !.info = "info"]]

Payloads ==
  { Jakarta, Sparse, OnlyCurrent,
    \* latitude that float() rejects
    [Jakarta EXCEPT !.location.lat = "abc"],
    \* no current section
    [Jakarta EXCEPT !.current = Missing(EmptyCurrent)],
    \* failure flag, with an error mapping and with an error string
    ApiError("101"), ApiError("615"),
    [ApiError("101") EXCEPT !.error = Text(EmptyError)],
    \* bodies that are not mappings
    JList({"current"}), JStr(CurrentKey), JNum }

Responses ==
  {Resp("json", d) : d \in Payloads}
    \cup {Resp("conn_error", NoData), Resp("timeout", NoData),
          Resp("bad_json", NoData)}

\* The responses drawn while the scheduler drives the whole DAG.
DagResponses ==
  { Resp("json", Jakarta), Resp("json", OnlyCurrent), Resp("timeout", NoData) }

\* ------------------------------------------------------------ extract_and_load
\* Lines 172-178.  Result: the exception leaving the task, the table
\* afterwards, what fetch did, whether load_to_postgres was called, and the
\* network requests and database connections made.
extract_and_load(e, resps, dbUp, table, exists, id, clock) ==
  LET api_key == get_env(e, TRUE)
      f == fetch_weather_from_api(resps)
      l == load_to_postgres(f.payload, dbUp, table, exists, id, clock)
  IN
  IF api_key.raised
    THEN [exc |-> Exc("ValueError", <<"Missing required environment variable: ",
                                      "WEATHERSTACK_API_KEY">>, NoData),
          rows |-> table, fetch |-> NoFetch, loadCalled |-> FALSE,
          netCalls |-> 0, dbCalls |-> 0]
  ELSE IF ~f.returned
    THEN [exc |-> f.error, rows |-> table, fetch |-> f, loadCalled |-> FALSE,
          netCalls |-> Len(f.requested), dbCalls |-> 0]
  ELSE [exc |-> l.exc, rows |-> l.rows, fetch |-> f, loadCalled |-> TRUE,
        netCalls |-> Len(f.requested), dbCalls |-> l.dbCalls]

\* ------------------------------------------------------------------- the DAG
T1 == "ensure_table"
T2 == "extract_and_load"
T3 == "cleanup_old_rows"
Tasks == {T1, T2, T3}
\* t1 >> t2 >> t3: the direct upstream tasks of each task
\* t1 >> [t2, t3] in place of t1 >> t2 >> t3.
upstream_fan_out ==
  [t \in {"ensure_table", "extract_and_load", "cleanup_old_rows"} |->
     IF t = "ensure_table" THEN {} ELSE {"ensure_table"}]
upstream == [t \in Tasks |-> CASE t = T1 -> {} [] t = T2 -> {T1} [] OTHER -> {T2}]

VARIABLES
  env,          \* WEATHERSTACK_API_KEY in the worker's environment
  tableExists,  \* weather_current exists
  indexExists,  \* idx_weather_current_fetched_at exists
  rows,         \* the rows of weather_current
  nextId,       \* the BIGSERIAL sequence
  now,          \* the database clock, in days
  active,       \* the DAG runs that are running
  started,      \* how many DAG runs were started
  lastOp        \* the last step taken, with what it did (history)

vars == <<env, tableExists, indexExists, rows, nextId, now, active, started, lastOp>>

NoOp ==
  [op |-> "init", run |-> 0, exc |-> NoError, resps |-> <<Unrequested, Unrequested>>,
   fetch |-> NoFetch, loadCalled |-> FALSE, before |-> {}, clock |-> 0,
   netCalls |-> 0, dbCalls |-> 0, dbBefore |-> 0]

NewRun(id) ==
  [id |-> id, state |-> [t \in Tasks |-> "none"], tries |-> [t \in Tasks |-> 0],
   dbCalls |-> 0]

Init ==
  /\ env \in EnvValues
  /\ tableExists = FALSE
  /\ indexExists = FALSE
  /\ rows = {}
  /\ nextId = 1
  /\ now = 0
  /\ active = {}
  /\ started = 0
  /\ lastOp = NoOp

\* The scheduler may start a task instance when it has not finished, has
\* tries left and every upstream task succeeded (trigger rule all_success).
Runnable(r, t) ==
  /\ r.state[t] \in {"none", "up_for_retry"}
  /\ \A u \in upstream[t] : r.state[u] = "success"

\* The task instance after one try that raised e (NoError: it returned) and
\* opened db database connections.
AfterTry(r, t, e, db) ==
  [r EXCEPT
     !.tries[t] = @ + 1,
     !.state[t] = IF e = NoError THEN "success"
                  ELSE IF r.tries[t] + 1 > retries THEN "failed"
                  ELSE "up_for_retry",
     !.dbCalls = @ + db]

Finished(r) ==
  \A t \in Tasks : r.state[t] \in {"success", "failed", "upstream_failed"}

\* A new DAG run is created only while fewer than max_active_runs are running.
StartRun ==
  /\ started < MaxRuns
  /\ Cardinality(active) < max_active_runs
  /\ active' = active \cup {NewRun(started + 1)}
  /\ started' = started + 1
  /\ lastOp' = [NoOp EXCEPT !.op = "start_run", !.run = started + 1,
                            !.before = rows, !.clock = now]
  /\ UNCHANGED <<env, tableExists, indexExists, rows, nextId, now>>

\* ensure_table (lines 67-74): CREATE TABLE / INDEX IF NOT EXISTS.
\* ensure_table with DROP TABLE before CREATE TABLE.
ensure_table_recreate(dbUp, table, hasTable, hasIndex) ==
  IF dbUp
    THEN [exc |-> NoError, hasTable |-> TRUE, hasIndex |-> TRUE, rows |-> {}]
    ELSE [exc |-> Exc("OperationalError", <<"could not connect to server">>, NoData),
          hasTable |-> hasTable, hasIndex |-> hasIndex, rows |-> table]
\* Result: the exception raised, whether the table and the index exist
\* afterwards, and the rows of the table.
ensure_table(dbUp, table, hasTable, hasIndex) ==
  IF dbUp
    THEN [exc |-> NoError, hasTable |-> TRUE, hasIndex |-> TRUE, rows |-> table]
    ELSE [exc |-> Exc("OperationalError", <<"could not connect to server">>, NoData),
          hasTable |-> hasTable, hasIndex |-> hasIndex, rows |-> table]

DoEnsureTable(r, dbUp) ==
  LET x == ensure_table(dbUp, rows, tableExists, indexExists)
  IN
  /\ Runnable(r, T1)
  /\ tableExists' = x.hasTable
  /\ indexExists' = x.hasIndex
  /\ rows' = x.rows
  /\ active' = (active \ {r}) \cup {AfterTry(r, T1, x.exc, 1)}
  /\ lastOp' = [NoOp EXCEPT !.op = T1, !.run = r.id, !.exc = x.exc,
                            !.before = rows, !.clock = now, !.dbCalls = 1,
                            !.dbBefore = r.dbCalls]
  /\ UNCHANGED <<env, nextId, now, started>>

\* What one call of extract_and_load does to the table, and its record.
ExtractEffect(id, dbBefore, x, resps) ==
  /\ rows' = x.rows
  /\ nextId' = IF x.rows = rows THEN nextId ELSE nextId + 1
  /\ lastOp' = [op |-> T2, run |-> id, exc |-> x.exc, resps |-> resps,
                fetch |-> x.fetch, loadCalled |-> x.loadCalled, before |-> rows,
                clock |-> now, netCalls |-> x.netCalls, dbCalls |-> x.dbCalls,
                dbBefore |-> dbBefore]

DoExtractAndLoad(r, resps, dbUp) ==
  LET x == extract_and_load(env, resps, dbUp, rows, tableExists, nextId, now)
  IN
  /\ Runnable(r, T2)
  /\ ExtractEffect(r.id, r.dbCalls, x, resps)
  /\ active' = (active \ {r}) \cup {AfterTry(r, T2, x.exc, x.dbCalls)}
  /\ UNCHANGED <<env, tableExists, indexExists, now, started>>

\* cleanup_old_rows (lines 159-169)
cleanup_old_rows(dbUp, table, exists, clock) ==
  IF ~dbUp
    THEN [exc |-> Exc("OperationalError", <<"could not connect to server">>, NoData),
          rows |-> table]
  ELSE IF ~exists
    THEN [exc |-> Exc("UndefinedTable", <<"relation does not exist">>, NoData),
          rows |-> table]
  ELSE [exc |-> NoError, rows |-> Delete(table, clock)]

DoCleanup(r, dbUp) ==
  LET x == cleanup_old_rows(dbUp, rows, tableExists, now)
  IN
  /\ Runnable(r, T3)
  /\ rows' = x.rows
  /\ active' = (active \ {r}) \cup {AfterTry(r, T3, x.exc, 1)}
  /\ lastOp' = [NoOp EXCEPT !.op = T3, !.run = r.id, !.exc = x.exc,
                            !.before = rows, !.clock = now, !.dbCalls = 1,
                            !.dbBefore = r.dbCalls]
  /\ UNCHANGED <<env, tableExists, indexExists, nextId, now, started>>

\* A task whose upstream failed is never run: it becomes upstream_failed.
SkipTask(r, t) ==
  /\ r.state[t] = "none"
  /\ \E u \in upstream[t] : r.state[u] \in {"failed", "upstream_failed"}
  /\ active' = (active \ {r}) \cup {[r EXCEPT !.state[t] = "upstream_failed"]}
  /\ lastOp' = [NoOp EXCEPT !.op = "skip", !.run = r.id, !.before = rows,
                            !.clock = now]
  /\ UNCHANGED <<env, tableExists, indexExists, rows, nextId, now, started>>

\* The DAG run ends when every task instance is in a final state.
FinishRun(r) ==
  /\ Finished(r)
  /\ active' = active \ {r}
  /\ lastOp' = [NoOp EXCEPT !.op = "finish_run", !.run = r.id, !.before = rows,
                            !.clock = now]
  /\ UNCHANGED <<env, tableExists, indexExists, rows, nextId, now, started>>

\* The database clock advances by a day.
Tick ==
  /\ now < MaxTime
  /\ now' = now + 1
  /\ lastOp' = [NoOp EXCEPT !.op = "tick", !.before = rows, !.clock = now + 1]
  /\ UNCHANGED <<env, tableExists, indexExists, rows, nextId, active, started>>

\* The answers of the two endpoints to one call: the second endpoint answers
\* only if it is requested.
Answers(universe) ==
  IF get_env(env, TRUE).raised THEN {<<Unrequested, Unrequested>>}
  ELSE {a \in universe \X (universe \cup {Unrequested}) :
          attempt(a[1]).ok <=> a[2] = Unrequested}

EnsureTableStep == \E r \in active, dbUp \in BOOLEAN : DoEnsureTable(r, dbUp)
ExtractAndLoadStep ==
  \E r \in active, resps \in Answers(DagResponses), dbUp \in BOOLEAN :
    DoExtractAndLoad(r, resps, dbUp)
CleanupStep == \E r \in active, dbUp \in BOOLEAN : DoCleanup(r, dbUp)
SkipStep == \E r \in active, t \in Tasks : SkipTask(r, t)
FinishStep == \E r \in active : FinishRun(r)

Next ==
  \/ StartRun
  \/ EnsureTableStep
  \/ ExtractAndLoadStep
  \/ CleanupStep
  \/ SkipStep
  \/ FinishStep
  \/ Tick

Spec == Init /\ [][Next]_vars

\* ------------------------------------------- extract_and_load called directly
\* The task callable run on its own (as a task test does) against a
\* provisioned database, for every response of the provider.
InitCall ==
  /\ env \in EnvValues
  /\ tableExists = TRUE
  /\ indexExists = TRUE
  /\ rows = {}
  /\ nextId = 1
  /\ now = 0
  /\ active = {}
  /\ started = 0
  /\ lastOp = NoOp

CallExtractAndLoad ==
  \E resps \in Answers(Responses), dbUp \in BOOLEAN :
    LET x == extract_and_load(env, resps, dbUp, rows, tableExists, nextId, now)
    IN
    /\ Cardinality(rows) < MaxCalls
    /\ ExtractEffect(0, 0, x, resps)
    /\ UNCHANGED <<env, tableExists, indexExists, now, active, started>>

NextCall == CallExtractAndLoad

SpecCall == InitCall /\ [][NextCall]_vars

\* =================================================================== claims
\* Vocabulary of the claims, stated on the responses themselves.
HasCurrentSection(d) == d.kind = "dict" /\ d.current.st # "absent"
FailureFlag(d) == d.kind = "dict" /\ d.success = "false"
ValidResponse(resp) ==
  resp.st = "json" /\ HasCurrentSection(resp.data) /\ ~FailureFlag(resp.data)
\* network error, timeout, parse error, failure flag, missing `current`
FailedResponse(resp) ==
  \/ resp.st \in {"conn_error", "timeout", "bad_json"}
  \/ resp.st = "json" /\ FailureFlag(resp.data)
  \/ resp.st = "json" /\ resp.data.kind = "dict" /\ ~HasCurrentSection(resp.data)
HasCode(resp) ==
  resp.st = "json" /\ FailureFlag(resp.data) /\ resp.data.error.st = "map"
    /\ resp.data.error.code # ABSENT
Mentions(msg, token) == \E i \in 1..Len(msg) : msg[i] = token
Fetched == lastOp.op = T2 /\ lastOp.fetch.requested # <<>>
Https == base_urls[1]
Http == base_urls[2]

\* C1: fetch_weather_from_api returns a payload only if it contains the
\* `current` section; a requested endpoint whose parsed body (of any JSON
\* type) lacks the section makes that attempt raise, and such a body is never
\* the argument of load_to_postgres.
C1_ReturnsOnlyWithCurrent ==
  Fetched =>
    /\ lastOp.fetch.returned => HasCurrentSection(lastOp.fetch.payload)
    /\ lastOp.loadCalled => HasCurrentSection(lastOp.fetch.payload)
    /\ \A i \in 1..Len(lastOp.fetch.requested) :
         (lastOp.resps[i].st = "json" /\ ~HasCurrentSection(lastOp.resps[i].data))
           => ~(lastOp.fetch.returned /\ lastOp.fetch.payload = lastOp.resps[i].data)

\* C2: when the https endpoint fails (network error, timeout, parse error,
\* failure flag or missing `current`) and the http endpoint answers with a
\* valid payload, fetch_weather_from_api returns exactly the http payload and
\* raises nothing.
C2_FallbackReturnsSecond ==
  (Fetched /\ FailedResponse(lastOp.resps[1]) /\ ValidResponse(lastOp.resps[2]))
    => /\ lastOp.fetch.returned
       /\ lastOp.fetch.payload = lastOp.resps[2].data
       /\ lastOp.fetch.error = NoError
C2_Witness ==
  /\ Fetched
  /\ lastOp.resps[1].st = "json" /\ FailureFlag(lastOp.resps[1].data)
  /\ ValidResponse(lastOp.resps[2])
  /\ lastOp.fetch.returned
  /\ lastOp.fetch.requested = <<Https, Http>>

\* C3 as claimed: whenever a requested endpoint answers with success = false
\* and an error code, fetch_weather_from_api raises and the message of the
\* error that leaves it contains that code.
C3_EveryFailureFlagRaisesWithCode ==
  Fetched =>
    \A i \in 1..Len(lastOp.fetch.requested) :
      HasCode(lastOp.resps[i])
        => /\ ~lastOp.fetch.returned
           /\ Mentions(lastOp.fetch.error.msg, lastOp.resps[i].data.error.code)

\* C3 as amended: when the endpoint requested last answers with success =
\* false and an error code, fetch_weather_from_api raises and the message of
\* the error that leaves it contains that code; a payload whose success flag
\* is false is never returned.
C3_LastFailureFlagRaisesWithCode ==
  Fetched =>
    LET last == lastOp.resps[Len(lastOp.fetch.requested)]
    IN /\ HasCode(last)
            => /\ ~lastOp.fetch.returned
               /\ lastOp.exc = lastOp.fetch.error
               /\ Mentions(lastOp.exc.msg, last.data.error.code)
       /\ lastOp.fetch.returned => ~FailureFlag(lastOp.fetch.payload)
C3_Witness ==
  /\ Fetched
  /\ HasCode(lastOp.resps[1]) /\ HasCode(lastOp.resps[2])
  /\ lastOp.resps[1].data.error.code # lastOp.resps[2].data.error.code
  /\ Mentions(lastOp.exc.msg, lastOp.resps[2].data.error.code)
  /\ ~Mentions(lastOp.exc.msg, lastOp.resps[1].data.error.code)

\* The payloads C4 is about: a mapping without failure flag, with a `current`
\* section, whose sections are mappings, null or missing and whose lat/lon
\* are numbers, null or missing.
Loadable(d) ==
  /\ HasCurrentSection(d) /\ ~FailureFlag(d)
  /\ d.request.st # "str" /\ d.location.st # "str" /\ d.current.st # "str"
  /\ d.location.lat \in {ABSENT, None} \cup DOMAIN FloatTable
  /\ d.location.lon \in {ABSENT, None} \cup DOMAIN FloatTable
\* The documented mapping of §3/§4.3, column by column (a missing or null
\* section gives null columns).
Field(sec, k) == IF sec.st = "map" /\ sec[k] # ABSENT THEN sec[k] ELSE None
Mapped(row, d) ==
  /\ row.query_text = Field(d.request, "query")
  /\ row.location_name = Field(d.location, "name")
  /\ row.region = Field(d.location, "region")
  /\ row.country = Field(d.location, "country")
  /\ row.latitude = IF Field(d.location, "lat") = None THEN SqlNull
                    ELSE SqlNum(FloatTable[d.location.lat])
  /\ row.longitude = IF Field(d.location, "lon") = None THEN SqlNull
                     ELSE SqlNum(FloatTable[d.location.lon])
  /\ row.observation_time = Field(d.current, "observation_time")
  /\ row.temperature_c = Field(d.current, "temperature")
  /\ row.humidity = Field(d.current, "humidity")
  /\ row.wind_speed = Field(d.current, "wind_speed")
  /\ row.wind_dir = Field(d.current, "wind_dir")
  /\ row.pressure = Field(d.current, "pressure")
  /\ row.precip = Field(d.current, "precip")
  /\ row.cloudcover = Field(d.current, "cloudcover")
  /\ row.uv_index = Field(d.current, "uv_index")
  /\ row.visibility = Field(d.current, "visibility")
  /\ row.is_day = Field(d.current, "is_day")
  /\ FromJsonb(row.raw) = d

\* C4: for every valid payload with a `current` section, whichever of the
\* request/location sections and sub-fields are present, load_to_postgres
\* (given a reachable database) adds exactly one row, whose columns follow the
\* mapping and whose raw column equals the payload.
C4_LoadAddsOneMappedRow ==
  (lastOp.op = T2 /\ lastOp.loadCalled /\ Loadable(lastOp.fetch.payload)
     /\ lastOp.exc.exc # "OperationalError")
    => \E new \in rows \ lastOp.before :
         /\ rows = lastOp.before \cup {new}
         /\ Mapped(new.cols, lastOp.fetch.payload)

\* C6: whenever load_to_postgres raises (data-mapping error or database
\* error), the rows of weather_current are what they were before the call.
C6_LoadAllOrNothing ==
  (lastOp.op = T2 /\ lastOp.loadCalled /\ lastOp.exc # NoError)
    => rows = lastOp.before
C6_Witness ==
  /\ lastOp.op = T2 /\ lastOp.loadCalled
  /\ lastOp.exc.exc = "NotNullViolation"
  /\ lastOp.before # {}
  /\ rows = lastOp.before

\* C10: one invocation requests https first and then http, each at most once;
\* http only after the https attempt failed; nothing after the first accepted
\* response; if both attempts fail it raises one aggregated error whose
\* message carries the message of the http failure, and returns nothing.
C10_SequentialFallback ==
  Fetched =>
    LET f == lastOp.fetch
        a1 == attempt(lastOp.resps[1])
        a2 == attempt(lastOp.resps[2])
    IN /\ f.requested \in {<<Https>>, <<Https, Http>>}
       /\ Len(f.requested) = 2 <=> ~a1.ok
       /\ a1.ok => f.returned /\ f.payload = lastOp.resps[1].data
       /\ (~a1.ok /\ ~a2.ok)
            => /\ ~f.returned
               /\ f.payload = NoData
               /\ lastOp.exc.exc = "RuntimeError"
               /\ lastOp.exc.msg =
                    <<"Failed calling Weatherstack API (https/http). Last error: ">>
                      \o a2.error.msg
               /\ ~lastOp.loadCalled
C10_Witness ==
  /\ Fetched
  /\ lastOp.fetch.requested = <<Https, Http>>
  /\ lastOp.resps[1].st = "timeout"
  /\ lastOp.resps[2].st = "bad_json"
  /\ ~lastOp.fetch.returned
  /\ Mentions(lastOp.exc.msg, "Expecting value")
  /\ ~Mentions(lastOp.exc.msg, "read timed out")

\* C5: after cleanup_old_rows completes, no row older than RETENTION_DAYS days
\* on the database clock of the call remains, every row not older than that
\* is still there unchanged, and nothing is added; with no row that old the
\* table is as before.
C5_PruneExactlyTheOld ==
  (lastOp.op = T3 /\ lastOp.exc = NoError)
    => /\ \A r \in rows : r.fetched_at + 2 >= lastOp.clock
       /\ \A r \in lastOp.before : r.fetched_at + 2 >= lastOp.clock => r \in rows
       /\ rows \subseteq lastOp.before
       /\ (\A r \in lastOp.before : r.fetched_at + 2 >= lastOp.clock)
            => rows = lastOp.before
C5_Witness ==
  /\ lastOp.op = T3 /\ lastOp.exc = NoError
  /\ \E r \in lastOp.before \ rows : r.fetched_at + 2 < lastOp.clock
  /\ \E r \in rows : r.fetched_at + 2 = lastOp.clock

\* C7: at most one DAG run is active; in a run a task is tried only after
\* the task before it succeeded, in the order ensure_table, extract_and_load,
\* cleanup_old_rows, never more than 1 + retries times; after a task failed
\* the tasks after it are never tried.
C7_StrictOrderSingleRun ==
  /\ Cardinality(active) <= 1
  /\ \A r \in active :
       /\ r.tries[T2] > 0 => r.state[T1] = "success"
       /\ r.tries[T3] > 0 => r.state[T2] = "success" /\ r.state[T1] = "success"
       /\ r.state[T1] \in {"failed", "up_for_retry"}
            => r.tries[T2] = 0 /\ r.tries[T3] = 0
       /\ r.state[T2] \in {"failed", "up_for_retry", "upstream_failed"}
            => r.tries[T3] = 0
       /\ \A t \in Tasks : r.tries[t] <= 3
       /\ \A t \in Tasks : r.state[t] = "failed" => r.tries[t] = 3
       /\ lastOp.run = r.id /\ lastOp.op = T2 => r.state[T1] = "success"
       /\ lastOp.run = r.id /\ lastOp.op = T3 => r.state[T2] = "success"
C7_Witness ==
  \E r \in active :
    /\ r.id = 2
    /\ r.tries[T1] = 2 /\ r.tries[T2] = 3 /\ r.tries[T3] = 1
    /\ r.state[T3] = "success"
    /\ lastOp.op = T3

\* C8: when WEATHERSTACK_API_KEY is unset, empty or blank, the configuration
\* error is raised before any network request and before any database
\* connection of the DAG run.
C8_ConfigErrorBeforeAnyCall ==
  (lastOp.op = T2 /\ lastOp.exc.exc = "ValueError"
     /\ Mentions(lastOp.exc.msg, "WEATHERSTACK_API_KEY"))
    => /\ lastOp.netCalls = 0
       /\ lastOp.dbCalls = 0
       /\ lastOp.dbBefore = 0

\* C9: a step changes the rows of weather_current only by adding one new row
\* in an extract_and_load whose fetch returned, or by removing rows older
\* than the retention cutoff in cleanup_old_rows; rows that stay keep their
\* values.
C9_OnlyLoadAddsOnlyCleanupRemoves ==
  [][ /\ rows' # rows =>
           \/ /\ lastOp'.op = T2
              /\ lastOp'.fetch.returned /\ lastOp'.loadCalled
              /\ lastOp'.exc = NoError
              /\ \E new \in rows' \ rows :
                   /\ rows' = rows \cup {new}
                   /\ \A r \in rows : r.id # new.id
           \/ /\ lastOp'.op = T3
              /\ rows' \subseteq rows
              /\ \A r \in rows \ rows' : r.fetched_at + 2 < now
      /\ \A r \in rows, q \in rows' : q.id = r.id => q = r
      /\ lastOp'.op = T2 /\ ~lastOp'.fetch.returned => rows' = rows
      /\ lastOp'.op = T1 => rows' = rows
    ]_vars
C9_Witness ==
  /\ lastOp.op = T2 /\ lastOp.fetch.returned
  /\ lastOp.before # {}
  /\ rows # lastOp.before
  /\ \E r \in rows : r.fetched_at < now

====
